---- MODULE Spec2Model ----
(***************************************************************************)
(* Model of src/B64/convertToBase64.js: the ImageToBase64Converter class   *)
(* (convert run, restore) and its command-line entry.                      *)
(*                                                                         *)
(* Strings are modelled as sequences of tokens: a src attribute            *)
(* "./assets/sub/clip.mp4" is <<"./assets/", "sub/", "clip", ".mp4">>, a   *)
(* data URI is <<"data:", mime, ";base64,", payload>>.  A file on disk is  *)
(* <<>> when it does not exist and <<content>> when it does.  An HTML      *)
(* document is the sequence of its tags.                                   *)
(***************************************************************************)
EXTENDS Naturals, Sequences, FiniteSets

VARIABLES
    html,             \* disk: HTML file name -> <<>> | <<document>>
    backup,           \* disk: HTML file name -> <<>> | <<document>>  (<name>.backup)
    perms,            \* disk: HTML file name -> "rw" | "ro" | "none"
    dirWritable,      \* disk: new files can be created in htmlDir
    assetsDirExists,  \* disk: the assets directory exists
    assets,           \* disk: asset path -> "absent" | "ok" | "locked"
    argv,             \* process.argv.slice(2) of the latest invocation
    pc,               \* position of the running invocation
    queue,            \* html files the forEach of run() has still to process
    htmlContent,      \* processHtmlFile: the rewritten text held in memory
    processedFiles,   \* this.processedFiles
    errors,           \* this.errors
    report,           \* what the invocation printed as its result
    pre,              \* history: html at the start of the latest invocation
    preBackup,        \* history: backup at the start of the latest invocation
    hist,             \* history: the invocation before the latest one
    edited,           \* history: the disk was changed from outside since the latest invocation
    runs,             \* number of invocations so far
    edits,            \* number of outside changes so far
    cb                \* a single application of a rewrite pass to one tag

vars == <<html, backup, perms, dirWritable, assetsDirExists, assets, argv, pc, queue,
          htmlContent, processedFiles, errors, report, pre, preBackup, hist, edited,
          runs, edits, cb>>

\* ------------------------------------------------------------------ bounds

MaxRuns == 3
MaxEdits == 1
MaxTags == 2

\* ------------------------------------------------------------------ strings

ToLowerCase(s) ==
    CASE s = ".PNG" -> ".png"
      [] s = "IMG" -> "img"
      [] OTHER -> s

ExtTokens == {".gif", ".webp", ".png", ".jpg", ".jpeg", ".svg", ".bmp", ".mp4",
              ".txt", ".html", ".PNG"}

DirTokens == {"./assets/", "../assets/", "assets/", "sub/", "media/"}

StartsWith(s, tok) == Len(s) > 0 /\ s[1] = tok

RECURSIVE TrimStart(_)
TrimStart(s) == IF Len(s) > 0 /\ s[1] = " " THEN TrimStart(Tail(s)) ELSE s

RECURSIVE TrimEnd(_)
TrimEnd(s) ==
    IF Len(s) > 0 /\ s[Len(s)] = " " THEN TrimEnd(SubSeq(s, 1, Len(s) - 1)) ELSE s

Trim(s) == TrimEnd(TrimStart(s))

\* path.basename: what follows the last directory separator
RECURSIVE Basename(_)
Basename(s) ==
    IF \E i \in 1..Len(s) : s[i] \in DirTokens THEN Basename(Tail(s)) ELSE s

\* path.extname: the last ".xxx" of the last path component, "" when there is none
ExtName(p) ==
    IF Len(p) > 1 /\ p[Len(p)] \in ExtTokens /\ p[Len(p) - 1] \notin DirTokens
    THEN p[Len(p)]
    ELSE ""

\* Buffer.toString('base64') of the bytes of a file
Base64(bytes) ==
    CASE bytes = "logo" -> "bG9nbw=="
      [] bytes = "clip" -> "Y2xpcA=="
      [] bytes = "LOGO" -> "TE9HTw=="
      [] OTHER -> ""

\* ------------------------------------------------------------------ disk

NoFile == <<>>
File(d) == <<d>>
Exists(x) == x # NoFile
Content(x) == x[1]

Index == <<"index", ".html">>
Page == <<"page", ".html">>
HtmlNames == {Index, Page}

\* fs.readdirSync(htmlDir): the entries in listing order
DirListing == <<Index, Page>>

LogoPng == <<"logo", ".png">>
ClipMp4 == <<"sub/", "clip", ".mp4">>
NotesTxt == <<"notes", ".txt">>
UpperPng == <<"LOGO", ".PNG">>
AssetPaths == {LogoPng, ClipMp4, NotesTxt, UpperPng}

\* the bytes of an asset file
Bytes(p) == p[Len(p) - 1]

\* fs.existsSync(imagePath) for a path under assetsDir
AssetExists(p) == assetsDirExists /\ p \in DOMAIN assets /\ assets[p] # "absent"

\* fs.readFileSync(imagePath) succeeds
AssetReadable(p) == AssetExists(p) /\ assets[p] = "ok"

\* ------------------------------------------------------------------ converter

supportedExtensions == {".gif", ".webp", ".png", ".jpg", ".jpeg", ".svg", ".bmp", ".mp4"}

MimeType(ext) ==
    CASE ext = ".gif" -> "image/gif"
      [] ext = ".webp" -> "image/webp"
      [] ext = ".png" -> "image/png"
      [] ext \in {".jpg", ".jpeg"} -> "image/jpeg"
      [] ext = ".svg" -> "image/svg+xml"
      [] ext = ".bmp" -> "image/bmp"
      [] ext = ".mp4" -> "video/mp4"
      [] OTHER -> "image/png"

\* imageToBase64: <<>> for null, <<data URI>> otherwise
imageToBase64(imagePath) ==
    IF ~AssetReadable(imagePath)
    THEN <<>>
    ELSE << <<"data:", MimeType(ToLowerCase(ExtName(imagePath))), ";base64,",
              Base64(Bytes(imagePath))>> >>

\* imageToBase64: what its catch block pushes on this.errors
imageToBase64Errors(imagePath) ==
    IF AssetExists(imagePath) /\ ~AssetReadable(imagePath) THEN <<imagePath>> ELSE <<>>

resolveImagePath(src) ==
    LET s == Trim(src) IN
    IF StartsWith(s, "./assets/") THEN Tail(s)
    ELSE IF StartsWith(s, "../assets/") THEN Tail(s)
    ELSE IF StartsWith(s, "assets/") THEN Tail(s)
    ELSE Basename(s)

\* the three regular expressions: <kind ... src="..." ...>, case-insensitive,
\* with a src of at least one character
TagKinds == <<"img", "video", "source">>

Matches(kind, t) == ToLowerCase(t.name) = kind /\ t.src # <<>>

\* faulty variant: the supported-extension check is left out
EncodesAnyExtension(src) == ~StartsWith(src, "data:")

\* the callback reaches imageToBase64
Encodes(src) ==
    /\ ~StartsWith(src, "data:")
    /\ ToLowerCase(ExtName(resolveImagePath(src))) \in supportedExtensions

\* the replace callback of one pass: the text that replaces the match
Callback(kind, t) ==
    IF ~Encodes(t.src) THEN t
    ELSE LET base64Data == imageToBase64(resolveImagePath(t.src)) IN
         IF base64Data # <<>>
         THEN [name |-> kind, quote |-> "dq", src |-> base64Data[1]]
         ELSE t

\* faulty variant: modified is set as soon as an encoding is attempted
CallbackModifiesOnAttempt(kind, t) == Encodes(t.src)

\* the callback sets modified
CallbackModifies(kind, t) ==
    Encodes(t.src) /\ imageToBase64(resolveImagePath(t.src)) # <<>>

CallbackErrors(kind, t) ==
    IF Encodes(t.src) THEN imageToBase64Errors(resolveImagePath(t.src)) ELSE <<>>

\* htmlContent.replace(regex, callback) for one tag of the document
PassTag(kind, t) == IF Matches(kind, t) THEN Callback(kind, t) ELSE t

PassDoc(kind, d) == [i \in 1..Len(d) |-> PassTag(kind, d[i])]

PassModified(kind, d) ==
    \E i \in 1..Len(d) : Matches(kind, d[i]) /\ CallbackModifies(kind, d[i])

RECURSIVE PassErrors(_, _)
PassErrors(kind, d) ==
    IF d = <<>> THEN <<>>
    ELSE (IF Matches(kind, Head(d)) THEN CallbackErrors(kind, Head(d)) ELSE <<>>)
         \o PassErrors(kind, Tail(d))

\* the three passes in sequence, each over the result of the one before
Rewritten(d) == PassDoc("source", PassDoc("video", PassDoc("img", d)))

\* faulty variant: the file counts as modified whatever the passes did
ModifiedAlways(d) == TRUE

Modified(d) ==
    \/ PassModified("img", d)
    \/ PassModified("video", PassDoc("img", d))
    \/ PassModified("source", PassDoc("video", PassDoc("img", d)))

RewriteErrors(d) ==
    PassErrors("img", d)
    \o PassErrors("video", PassDoc("img", d))
    \o PassErrors("source", PassDoc("video", PassDoc("img", d)))

\* findHtmlFiles: the entries that end with .html and are files
findHtmlFiles ==
    SelectSeq(DirListing, LAMBDA f : f[Len(f)] = ".html" /\ Exists(html[f]))

\* the entry of fs.readdirSync(assetsDir) an asset path shows as
TopEntry(p) == IF p[1] \in DirTokens THEN <<p[1]>> ELSE p

listAvailableImages ==
    {e \in {TopEntry(p) : p \in {q \in AssetPaths : AssetExists(q)}} :
        ToLowerCase(ExtName(e)) \in supportedExtensions}

\* ------------------------------------------------------------------ CLI

Includes(a, flag) == \E i \in 1..Len(a) : a[i] = flag

Dispatch(a) ==
    IF Includes(a, "--restore") \/ Includes(a, "-r") THEN "restore"
    ELSE IF Includes(a, "--help") \/ Includes(a, "-h") THEN "help"
    ELSE "run"

ArgLists == {<<>>, <<"-r">>, <<"--help">>, <<"--help", "--restore">>}

\* ------------------------------------------------------------------ inputs

Tag(n, q, s) == [name |-> n, quote |-> q, src |-> s]

ImgLogo == Tag("img", "dq", <<"./assets/", "logo", ".png">>)
SourceClip == Tag("source", "sq", <<"../assets/", "sub/", "clip", ".mp4">>)
VideoNotes == Tag("video", "dq", <<"assets/", "notes", ".txt">>)

\* the tags an outside edit adds to an HTML file
EditTags == {ImgLogo, SourceClip, VideoNotes}

\* the assets an outside change touches
EditAssets == {LogoPng, ClipMp4}

InitDocs == {NoFile, File(<<>>), File(<<SourceClip>>)}

NoReport == [kind |-> "none", count |-> 0, errs |-> 0]

NoCallback == [kind |-> "img", tag |-> ImgLogo, out |-> <<>>]

Init ==
    /\ html \in [HtmlNames -> InitDocs]
    /\ backup = [f \in HtmlNames |-> NoFile]
    /\ perms = [f \in HtmlNames |-> "rw"]
    /\ dirWritable = TRUE
    /\ assetsDirExists = TRUE
    /\ assets = [p \in AssetPaths |-> IF p = UpperPng THEN "absent" ELSE "ok"]
    /\ argv = <<>>
    /\ pc = "idle"
    /\ queue = <<>>
    /\ htmlContent = <<>>
    /\ processedFiles = <<>>
    /\ errors = <<>>
    /\ report = NoReport
    /\ pre = html
    /\ preBackup = backup
    /\ hist = [cmd |-> "none", html |-> html, backup |-> backup, edited |-> FALSE]
    /\ edited = FALSE
    /\ runs = 0
    /\ edits = 0
    /\ cb = NoCallback

\* ------------------------------------------------------------------ outside changes

Outside ==
    /\ pc = "idle"
    /\ edits < MaxEdits
    /\ runs < MaxRuns   \* an outside change is observed only by a later invocation
    /\ edits' = edits + 1
    /\ edited' = TRUE
    /\ UNCHANGED <<backup, argv, pc, queue, htmlContent, processedFiles, errors, report,
                   pre, preBackup, hist, runs, cb>>

EditAppend(f, t) ==
    /\ Outside
    /\ Exists(html[f])
    /\ Len(Content(html[f])) < MaxTags
    /\ html' = [html EXCEPT ![f] = File(Append(Content(html[f]), t))]
    /\ UNCHANGED <<perms, dirWritable, assetsDirExists, assets>>

Chmod(f, m) ==
    /\ Outside
    /\ Exists(html[f])
    /\ perms[f] # m
    /\ perms' = [perms EXCEPT ![f] = m]
    /\ UNCHANGED <<html, dirWritable, assetsDirExists, assets>>

ChmodDir ==
    /\ Outside
    /\ dirWritable' = ~dirWritable
    /\ UNCHANGED <<html, perms, assetsDirExists, assets>>

SetAsset(p, s) ==
    /\ Outside
    /\ assetsDirExists
    /\ assets[p] # s
    /\ assets' = [assets EXCEPT ![p] = s]
    /\ UNCHANGED <<html, perms, dirWritable, assetsDirExists>>

RemoveAssetsDir ==
    /\ Outside
    /\ assetsDirExists
    /\ assetsDirExists' = FALSE
    /\ assets' = [p \in AssetPaths |-> "absent"]
    /\ UNCHANGED <<html, perms, dirWritable>>

\* ------------------------------------------------------------------ invocations

\* node convertToBase64.js <a>: a new converter, processedFiles and errors empty
Invoke(a) ==
    /\ pc = "idle"
    /\ runs < MaxRuns
    /\ runs' = runs + 1
    /\ argv' = a
    /\ pre' = html
    /\ preBackup' = backup
    /\ hist' = [cmd |-> IF runs = 0 THEN "none" ELSE Dispatch(argv),
                html |-> pre, backup |-> preBackup, edited |-> edited]
    /\ edited' = FALSE
    /\ UNCHANGED <<perms, dirWritable, assetsDirExists, assets, edits, cb>>

\* faulty variant: the empty-listing check of the assets is left out
HardFailureSkipAssets ==
    IF ~assetsDirExists THEN "no assets directory"
    ELSE IF findHtmlFiles = <<>> THEN "no html files"
    ELSE ""

\* run(): why it returns before processing, "" when it does not
HardFailure ==
    IF ~assetsDirExists THEN "no assets directory"
    ELSE IF listAvailableImages = {} THEN "no assets"
    ELSE IF findHtmlFiles = <<>> THEN "no html files"
    ELSE ""

Run(a) ==
    /\ Invoke(a)
    /\ Dispatch(a) = "run"
    /\ processedFiles' = <<>>
    /\ errors' = <<>>
    /\ htmlContent' = <<>>
    /\ report' = NoReport
    /\ IF HardFailure # ""
       THEN /\ pc' = "idle"
            /\ queue' = <<>>
       ELSE /\ pc' = "read"
            /\ queue' = findHtmlFiles
    /\ UNCHANGED <<html, backup>>

\* the forEach of run(): on to the next file, or to the summary
Continue(q) ==
    /\ queue' = q
    /\ htmlContent' = <<>>
    /\ pc' = IF q = <<>> THEN "summary" ELSE "read"

\* faulty variant: an exception ends the loop
AfterErrorAbort(q) == <<>>

\* the catch block of processHtmlFile: the file is given up, the loop goes on
AfterError(q) == Tail(q)

\* faulty variant: the file is written before it is backed up
NextStepWriteFirst(step) ==
    CASE step = "read" -> "write"
      [] step = "write" -> "backup"
      [] step = "backup" -> "done"

\* the order of processHtmlFile's steps once the passes have modified the text
NextStep(step) ==
    CASE step = "read" -> "backup"
      [] step = "backup" -> "write"
      [] step = "write" -> "done"

Proceed(step) ==
    IF NextStep(step) = "done"
    THEN Continue(Tail(queue))
    ELSE /\ pc' = NextStep(step)
         /\ queue' = queue
         /\ UNCHANGED htmlContent

Fail(f) ==
    /\ errors' = Append(errors, f)
    /\ Continue(AfterError(queue))

Stepping == UNCHANGED <<perms, dirWritable, assetsDirExists, assets, argv, pre,
                        preBackup, hist, edited, runs, edits, cb>>

\* processHtmlFile: readFileSync and the three replace passes
ReadStep ==
    /\ pc = "read"
    /\ Stepping
    /\ LET f == Head(queue) IN
       IF perms[f] = "none"
       THEN /\ Fail(f)
            /\ UNCHANGED <<html, backup, processedFiles, report>>
       ELSE LET d == Content(html[f]) IN
            /\ errors' = errors \o RewriteErrors(d)
            /\ IF Modified(d)
               THEN /\ htmlContent' = Rewritten(d)
                    /\ pc' = NextStep("read")
                    /\ queue' = queue
               ELSE Continue(Tail(queue))
            /\ UNCHANGED <<html, backup, processedFiles, report>>

\* faulty variant: the backup is refreshed on every modification
NeedsBackupAlways(f) == TRUE

\* the backup is wanted only when there is none yet
NeedsBackup(f) == ~Exists(backup[f])

\* faulty variant: the backup is written from the rewritten text
BackupSourceRewritten(f) == File(htmlContent)

\* fs.copyFileSync(htmlFilePath, backupPath): what lands in the backup
BackupSource(f) == html[f]

BackupStep ==
    /\ pc = "backup"
    /\ Stepping
    /\ LET f == Head(queue) IN
       IF NeedsBackup(f)
       THEN IF dirWritable \/ Exists(backup[f])   \* creating the file needs the directory
            THEN /\ backup' = [backup EXCEPT ![f] = BackupSource(f)]
                 /\ Proceed("backup")
                 /\ UNCHANGED <<html, processedFiles, errors, report>>
            ELSE /\ Fail(f)
                 /\ UNCHANGED <<html, backup, processedFiles, report>>
       ELSE /\ Proceed("backup")
            /\ UNCHANGED <<html, backup, processedFiles, errors, report>>

\* fs.writeFileSync(htmlFilePath, htmlContent) and the push on processedFiles
WriteStep ==
    /\ pc = "write"
    /\ Stepping
    /\ LET f == Head(queue) IN
       IF perms[f] = "rw"
       THEN /\ html' = [html EXCEPT ![f] = File(htmlContent)]
            /\ processedFiles' = Append(processedFiles, f)
            /\ Proceed("write")
            /\ UNCHANGED <<backup, errors, report>>
       ELSE /\ Fail(f)
            /\ UNCHANGED <<html, backup, processedFiles, report>>

Summary ==
    /\ pc = "summary"
    /\ Stepping
    /\ report' = [kind |-> "summary", count |-> Len(processedFiles), errs |-> Len(errors)]
    /\ pc' = "idle"
    /\ UNCHANGED <<html, backup, queue, htmlContent, processedFiles, errors>>

\* faulty variant: a failed copy is taken for a successful one
RestoreCopiesUnchecked(f) == Exists(backup[f])

\* restore(): the copy of one backup over its file succeeds
RestoreCopies(f) == Exists(backup[f]) /\ perms[f] = "rw"

RestoredFiles == {i \in 1..Len(findHtmlFiles) : RestoreCopies(findHtmlFiles[i])}

Restore(a) ==
    /\ Invoke(a)
    /\ Dispatch(a) = "restore"
    /\ processedFiles' = <<>>
    /\ errors' = <<>>
    /\ html' = [f \in HtmlNames |->
                  IF (\E i \in RestoredFiles : findHtmlFiles[i] = f) THEN backup[f]
                  ELSE html[f]]
    /\ report' = [kind |-> "restore", count |-> Cardinality(RestoredFiles), errs |-> 0]
    /\ UNCHANGED <<backup, pc, queue, htmlContent>>

Help(a) ==
    /\ Invoke(a)
    /\ Dispatch(a) = "help"
    /\ processedFiles' = <<>>
    /\ errors' = <<>>
    /\ report' = [kind |-> "usage", count |-> 0, errs |-> 0]
    /\ UNCHANGED <<html, backup, pc, queue, htmlContent>>

Next ==
    \/ \E f \in HtmlNames, t \in EditTags : EditAppend(f, t)
    \/ \E f \in HtmlNames, m \in {"rw", "ro", "none"} : Chmod(f, m)
    \/ ChmodDir
    \/ \E p \in EditAssets, s \in {"absent", "ok", "locked"} : SetAsset(p, s)
    \/ RemoveAssetsDir
    \/ \E a \in ArgLists : Run(a)
    \/ ReadStep
    \/ BackupStep
    \/ WriteStep
    \/ Summary
    \/ \E a \in ArgLists : Restore(a)
    \/ \E a \in ArgLists : Help(a)

Spec == Init /\ [][Next]_vars

\* ------------------------------------------------------------------ one pass on one tag

TagNames == {"img", "IMG", "video", "source", "script"}

TagSrcs ==
    {<<"./assets/", "logo", ".png">>,
     <<"../assets/", "sub/", "clip", ".mp4">>,
     <<"assets/", "notes", ".txt">>,
     <<"media/", "logo", ".png">>,
     <<" ", "./assets/", "logo", ".png", " ">>,
     <<"LOGO", ".PNG">>,
     <<"assets/", "missing", ".mp4">>,
     <<"logo">>,
     <<"data:", "image/png", ";base64,", "bG9nbw==">>,
     <<>>}

TagUniverse == {Tag(n, q, s) : n \in TagNames, q \in {"dq", "sq"}, s \in TagSrcs}

InitTags ==
    /\ html = [f \in HtmlNames |-> NoFile]
    /\ backup = [f \in HtmlNames |-> NoFile]
    /\ perms = [f \in HtmlNames |-> "rw"]
    /\ dirWritable = TRUE
    /\ assetsDirExists \in BOOLEAN
    /\ assets \in [AssetPaths -> {"absent", "ok", "locked"}]
    /\ assetsDirExists \/ assets = [p \in AssetPaths |-> "absent"]
    /\ argv = <<>>
    /\ pc = "idle"
    /\ queue = <<>>
    /\ htmlContent = <<>>
    /\ processedFiles = <<>>
    /\ errors = <<>>
    /\ report = NoReport
    /\ pre = html
    /\ preBackup = backup
    /\ hist = [cmd |-> "none", html |-> html, backup |-> backup, edited |-> FALSE]
    /\ edited = FALSE
    /\ runs = 0
    /\ edits = 0
    /\ cb \in [kind : {TagKinds[i] : i \in 1..Len(TagKinds)}, tag : TagUniverse, out : {<<>>}]

\* htmlContent.replace(regex, callback) met the tag cb.tag in the pass for cb.kind
ApplyPass ==
    /\ cb.out = <<>>
    /\ cb' = [cb EXCEPT !.out = <<PassTag(cb.kind, cb.tag)>>]
    /\ errors' = errors \o PassErrors(cb.kind, <<cb.tag>>)
    /\ UNCHANGED <<html, backup, perms, dirWritable, assetsDirExists, assets, argv, pc,
                   queue, htmlContent, processedFiles, report, pre, preBackup, hist,
                   edited, runs, edits>>

NextTags == ApplyPass

SpecTags == InitTags /\ [][NextTags]_vars

\* ------------------------------------------------------------------ properties

InSeq(x, q) == \E i \in 1..Len(q) : q[i] = x

\* the command the latest invocation ran
LastCmd == IF runs = 0 THEN "none" ELSE Dispatch(argv)

\* the latest invocation is a convert run and the disk has not been touched since
InRun == LastCmd = "run" /\ ~edited

\* restore ran right after a convert run, nothing from outside in between or since
ConvertThenRestore ==
    LastCmd = "restore" /\ hist.cmd = "run" /\ ~hist.edited /\ ~edited

\* the rewrite of the content f had when the latest invocation started
Expected(f) == Rewritten(Content(pre[f]))

\* at least one substitution succeeds in f, as it was when the invocation started
Substitutes(f) == perms[f] # "none" /\ Expected(f) # Content(pre[f])

HelpFlag == Includes(argv, "--help") \/ Includes(argv, "-h")

NoAssetsDir == ~assetsDirExists

NoSupportedAsset ==
    \A p \in AssetPaths :
        (assets[p] # "absent" /\ p[1] \notin DirTokens)
            => ToLowerCase(p[Len(p)]) \notin supportedExtensions

NoHtmlFile == \A f \in HtmlNames : ~Exists(html[f])

\* C1 (as claimed): after convert then restore every HTML file has the content it
\* had immediately before the convert run, whatever backups existed before it.
C1_RoundTripAnyDisk ==
    ConvertThenRestore => \A f \in HtmlNames : html[f] = hist.html[f]

\* C1 (amended): after convert then restore, every HTML file that had no .backup
\* sibling before the convert run, or one equal to its content, has the content it
\* had immediately before the convert run.
C1_RoundTripFreshBackup ==
    ConvertThenRestore =>
        \A f \in HtmlNames :
            (~Exists(hist.backup[f]) \/ hist.backup[f] = hist.html[f])
                => html[f] = hist.html[f]

\* a file without backup was converted by the run and restore brought it back
C1_Witness ==
    /\ ConvertThenRestore
    /\ report.count > 0
    /\ \E f \in HtmlNames :
          /\ ~Exists(hist.backup[f])
          /\ Exists(backup[f])
          /\ perms[f] = "rw"
          /\ html[f] = hist.html[f]
          /\ pre[f] # hist.html[f]

\* C2: once <file>.html.backup exists, no step of the tool (and no outside edit of
\* an HTML file) changes its content.
C2_BackupNeverOverwritten ==
    [][\A f \in HtmlNames : Exists(backup[f]) => backup'[f] = backup[f]]_vars

\* a run rewrote a file whose backup was there before the run, and left the backup
C2_Witness ==
    /\ InRun
    /\ \E f \in HtmlNames :
          /\ InSeq(f, processedFiles)
          /\ Exists(preBackup[f])
          /\ backup[f] = preBackup[f]
          /\ html[f] # pre[f]
          /\ backup[f] # pre[f]

C4_BackupBeforeWrite ==
    InRun =>
        \A f \in HtmlNames :
            /\ html[f] # pre[f] => Exists(backup[f])
            /\ (~Exists(preBackup[f]) /\ Exists(backup[f])) => backup[f] = pre[f]

\* one file was backed up and rewritten, another was backed up and its write failed
C4_Witness ==
    /\ InRun
    /\ \E f, g \in HtmlNames :
          /\ html[f] # pre[f]
          /\ ~Exists(preBackup[f])
          /\ backup[f] = pre[f]
          /\ perms[g] = "ro"
          /\ ~Exists(preBackup[g])
          /\ backup[g] = pre[g]
          /\ html[g] = pre[g]
          /\ InSeq(g, errors)

\* the number of files restore copies successfully
CopiedCount ==
    Cardinality({f \in HtmlNames : Exists(pre[f]) /\ Exists(backup[f]) /\ perms[f] = "rw"})

\* C5 (as claimed): after restore every HTML file with a backup equals the backup,
\* every file without one is unchanged, the backups are unchanged, and the reported
\* count is the number of files copied.
C5_RestoreEveryBackup ==
    (LastCmd = "restore" /\ ~edited) =>
        /\ \A f \in HtmlNames :
              /\ (Exists(html[f]) /\ Exists(backup[f])) => html[f] = backup[f]
              /\ ~Exists(backup[f]) => html[f] = pre[f]
        /\ backup = preBackup
        /\ report.kind = "restore"
        /\ report.count = CopiedCount

\* C5 (amended): after restore every HTML file with a backup whose copy succeeded
\* equals the backup, every file without a backup or whose copy failed is unchanged,
\* the backups are unchanged, and the reported count is the number of files copied.
C5_RestoreCopiedBackups ==
    (LastCmd = "restore" /\ ~edited) =>
        /\ \A f \in HtmlNames :
              /\ (Exists(html[f]) /\ Exists(backup[f]) /\ perms[f] = "rw")
                    => html[f] = backup[f]
              /\ (~Exists(backup[f]) \/ perms[f] # "rw") => html[f] = pre[f]
        /\ backup = preBackup
        /\ report.kind = "restore"
        /\ report.count = CopiedCount

\* restore copied a backup over a converted file, skipped a file without backup and
\* failed on a read-only one
C5_Witness ==
    /\ LastCmd = "restore" /\ ~edited
    /\ report.count = 1
    /\ \E f, g \in HtmlNames :
          /\ Exists(backup[f])
          /\ html[f] = backup[f]
          /\ pre[f] # backup[f]
          /\ Exists(html[g])
          /\ (~Exists(backup[g]) \/ perms[g] # "rw")

\* C6: a convert run started without assets directory, without a supported file in
\* it, or without HTML file changes no HTML file, creates no backup and records no
\* processed file.
C6_HardFailureNoMutation ==
    (InRun /\ (NoAssetsDir \/ NoSupportedAsset \/ NoHtmlFile)) =>
        /\ html = pre
        /\ backup = preBackup
        /\ processedFiles = <<>>
        /\ report = NoReport

\* the run ended early over a file whose tag names an asset that is there, in a
\* subdirectory of an assets directory that lists no supported file
C6_Witness ==
    /\ InRun
    /\ pc = "idle"
    /\ assetsDirExists
    /\ NoSupportedAsset
    /\ assets[ClipMp4] = "ok"
    /\ \E f \in HtmlNames : html[f] = File(<<SourceClip>>)

\* f ends the run in error: its read, the creation of its backup or its write fails
FailsAlone(f) ==
    \/ perms[f] = "none"
    \/ /\ Expected(f) # Content(pre[f])
       /\ \/ perms[f] # "rw"
          \/ ~Exists(preBackup[f]) /\ ~dirWritable

\* C7: a convert run that gets to the files reaches the summary, and the outcome of
\* each file is decided by that file alone: a file whose read or write fails is in
\* the error list, not in the processed list and unchanged; every other file holds
\* its rewritten content and is processed exactly when a substitution succeeded.
C7_PartialFailureIsolation ==
    (InRun /\ pc = "idle" /\ ~(NoAssetsDir \/ NoSupportedAsset \/ NoHtmlFile)) =>
        /\ report.kind = "summary"
        /\ \A f \in HtmlNames :
              Exists(pre[f]) =>
                 IF FailsAlone(f)
                 THEN /\ InSeq(f, errors)
                      /\ ~InSeq(f, processedFiles)
                      /\ html[f] = pre[f]
                 ELSE /\ ~InSeq(f, errors)
                      /\ html[f] = File(Expected(f))
                      /\ InSeq(f, processedFiles) <=> (Expected(f) # Content(pre[f]))

\* the first file of the listing failed and the one after it was converted
C7_Witness ==
    /\ InRun
    /\ pc = "idle"
    /\ report.kind = "summary"
    /\ InSeq(Index, errors)
    /\ ~InSeq(Index, processedFiles)
    /\ InSeq(Page, processedFiles)
    /\ html[Page] # pre[Page]

\* C8: in a convert run a file in which no substitution succeeds is not written,
\* gets no backup and is not processed; a missing asset is never in the error list;
\* and a file is processed exactly when a substitution succeeded and the file holds
\* the rewritten content.
C8_NoModificationFrame ==
    InRun =>
        /\ \A f \in HtmlNames :
              /\ (Exists(pre[f]) /\ ~Substitutes(f)) =>
                    /\ html[f] = pre[f]
                    /\ backup[f] = preBackup[f]
                    /\ ~InSeq(f, processedFiles)
              /\ InSeq(f, processedFiles) <=>
                    (Exists(pre[f]) /\ Substitutes(f) /\ html[f] = File(Expected(f)))
        /\ \A p \in AssetPaths : InSeq(p, errors) => AssetExists(p)

\* the run ended over a file whose only reference is to an asset that is missing
C8_Witness ==
    /\ InRun
    /\ pc = "idle"
    /\ report = [kind |-> "summary", count |-> 0, errs |-> 0]
    /\ assets[ClipMp4] = "absent"
    /\ \E f \in HtmlNames : html[f] = File(<<SourceClip>>) /\ ~Exists(backup[f])

\* the conditions under which the callback may replace the src of a tag
MayReplace(t) ==
    /\ ~StartsWith(t.src, "data:")
    /\ ToLowerCase(ExtName(resolveImagePath(t.src))) \in supportedExtensions
    /\ AssetReadable(resolveImagePath(t.src))

\* C9: a pass changes a tag only if the tag is of its kind, its src does not start
\* with data:, the resolved path has a supported extension and the asset could be
\* read, and then the new src is a data URI; in every other case the tag is
\* returned exactly as it was.
C9_TagRewriteDecision ==
    cb.out # <<>> =>
        /\ cb.out[1] # cb.tag =>
              /\ Matches(cb.kind, cb.tag)
              /\ MayReplace(cb.tag)
              /\ StartsWith(cb.out[1].src, "data:")
        /\ ~(Matches(cb.kind, cb.tag) /\ MayReplace(cb.tag)) => cb.out[1] = cb.tag
        /\ StartsWith(cb.tag.src, "data:") => cb.out[1] = cb.tag

\* a pass replaced the src of a tag of its kind by the data URI of the asset
C9_Witness ==
    /\ cb.out # <<>>
    /\ cb.tag = Tag("IMG", "sq", <<" ", "./assets/", "logo", ".png", " ">>)
    /\ cb.out[1] = Tag("img", "dq", <<"data:", "image/png", ";base64,", "bG9nbw==">>)

\* C10 (as claimed): an invocation whose arguments contain --help or -h changes no
\* HTML file and no backup.
C10_HelpNoSideEffects ==
    (runs > 0 /\ HelpFlag /\ ~edited) => html = pre /\ backup = preBackup

====
